---- MODULE Spec2Model ----
(***************************************************************************)
(* lineriver: buffered non-blocking line reader (LineReader and            *)
(* LineReaderNonBlock).  The reader owns a byte buffer, performs one read  *)
(* attempt per read_once call, splits complete lines at b'\n' and          *)
(* validates each line as UTF-8.                                           *)
(*                                                                         *)
(* Representation of the Vec<u8> `buf`: the model keeps the bytes that     *)
(* were written explicitly in `buf` and the Vec's length in `buf_len`;     *)
(* every element at an index >= Len(buf) is the 0 that Vec::resize filled  *)
(* in.  Indices are 0-based as in the source (BufAt, Slice).               *)
(***************************************************************************)
EXTENDS Integers, Sequences, FiniteSets, TLC

\* const BUFFER_SIZE: usize = 8192;
BUFFER_SIZE == 8192

\* Longest byte stream the environment delivers.
MaxLen == 4

\* b'\n'
NL == 10

\* Bytes the stream can deliver: '\n' and 0xC3 0xA9 (the two bytes of U+00E9,
\* valid text in this order only; each of them alone is invalid UTF-8).
Bytes == {10, 195, 169}

\* io::ErrorKind values the underlying read can fail with.
ErrorKinds == {"WouldBlock", "Interrupted", "ConnectionReset", "BrokenPipe"}

VARIABLES
    delivered,   \* reader: every byte the stream has handed out so far
    stream_eof,  \* reader: the stream has reported end-of-stream (read -> 0)
    at_eof,      \* LineReader.at_eof
    buf,         \* LineReader.buf, explicitly written bytes
    buf_len,     \* LineReader.buf.len()
    used,        \* LineReader.used
    lines,       \* LineReader.lines
    pc,          \* "idle", or the read_available loop the caller is inside
    op,          \* the operation that made the last step
    r,           \* what the underlying read returned in the last step
    ret,         \* what the last read_once call returned
    taken,       \* the Vec the last lines_get returned
    failed,      \* some read_once has returned an invalid-text error
    scanned,     \* per delivered byte: how often memchr has examined it
    got          \* every line lines_get has returned, in order

vars == <<delivered, stream_eof, at_eof, buf, buf_len, used, lines,
          pc, op, r, ret, taken, failed, scanned, got>>

----------------------------------------------------------------------------
\* Vec<u8> helpers (0-based indices, half-open ranges)

\* buf[i]
BufAt(b, i) == IF i < Len(b) THEN b[i + 1] ELSE 0

\* &buf[from..to]
Slice(b, from, to) == [i \in 1..(to - from) |-> BufAt(b, from + i - 1)]

\* Vec::split_off(from): the explicitly stored part of buf[from..]
split_off(b, from) == IF from >= Len(b) THEN <<>> ELSE SubSeq(b, from + 1, Len(b))

\* Variant: the index of the last occurrence (memrchr)
memchr_last(needle, haystack) ==
    IF \E i \in 1..Len(haystack) : haystack[i] = needle
    THEN (CHOOSE i \in 1..Len(haystack) :
            /\ haystack[i] = needle
            /\ \A j \in (i + 1)..Len(haystack) : haystack[j] # needle) - 1
    ELSE -1

\* memchr::memchr(needle, haystack): index of the first occurrence, -1 for None
memchr(needle, haystack) ==
    IF \E i \in 1..Len(haystack) : haystack[i] = needle
    THEN (CHOOSE i \in 1..Len(haystack) :
            /\ haystack[i] = needle
            /\ \A j \in 1..(i - 1) : haystack[j] # needle) - 1
    ELSE -1

\* The number of bytes of haystack that memchr(needle, haystack) examines:
\* up to and including the first occurrence, all of them if there is none
memchr_examined(needle, haystack) ==
    IF memchr(needle, haystack) # -1 THEN memchr(needle, haystack) + 1
    ELSE Len(haystack)

----------------------------------------------------------------------------
\* str::from_utf8 validity

IsCont(b) == b >= 128 /\ b <= 191

\* Number of bytes of the well-formed UTF-8 sequence that starts at s[i],
\* 0 if there is none (core::str::validations::run_utf8_validation).
Utf8Width(s, i) ==
    LET b0 == s[i]
        b1 == IF i + 1 <= Len(s) THEN s[i + 1] ELSE -1
        b2 == IF i + 2 <= Len(s) THEN s[i + 2] ELSE -1
        b3 == IF i + 3 <= Len(s) THEN s[i + 3] ELSE -1
    IN  IF b0 < 128 THEN 1
        ELSE IF b0 >= 194 /\ b0 <= 223
             THEN IF IsCont(b1) THEN 2 ELSE 0
        ELSE IF b0 = 224
             THEN IF b1 >= 160 /\ b1 <= 191 /\ IsCont(b2) THEN 3 ELSE 0
        ELSE IF (b0 >= 225 /\ b0 <= 236) \/ b0 = 238 \/ b0 = 239
             THEN IF IsCont(b1) /\ IsCont(b2) THEN 3 ELSE 0
        ELSE IF b0 = 237
             THEN IF b1 >= 128 /\ b1 <= 159 /\ IsCont(b2) THEN 3 ELSE 0
        ELSE IF b0 = 240
             THEN IF b1 >= 144 /\ b1 <= 191 /\ IsCont(b2) /\ IsCont(b3) THEN 4 ELSE 0
        ELSE IF b0 >= 241 /\ b0 <= 243
             THEN IF IsCont(b1) /\ IsCont(b2) /\ IsCont(b3) THEN 4 ELSE 0
        ELSE IF b0 = 244
             THEN IF b1 >= 128 /\ b1 <= 143 /\ IsCont(b2) /\ IsCont(b3) THEN 4 ELSE 0
        ELSE 0

RECURSIVE Utf8From(_, _)
Utf8From(s, i) ==
    IF i > Len(s) THEN TRUE
    ELSE LET w == Utf8Width(s, i)
         IN  w > 0 /\ Utf8From(s, i + w)

\* str::from_utf8(buf).is_ok()
from_utf8_ok(s) == Utf8From(s, 1)

\* Variant: no validation (String::from_utf8_unchecked)
u8array_to_string_unchecked(b) == [ok |-> TRUE, val |-> b, kind |-> "none"]

\* fn u8array_to_string(buf: &[u8]) -> Result<String, io::Error>
\* A String is its UTF-8 bytes; to_string() copies them.
u8array_to_string(b) ==
    IF from_utf8_ok(b)
    THEN [ok |-> TRUE, val |-> b, kind |-> "none"]
    ELSE [ok |-> FALSE, val |-> <<>>, kind |-> "InvalidData"]

----------------------------------------------------------------------------
\* The reader object as a record, for the operators that transform it.

Self == [at_eof |-> at_eof, buf |-> buf, buf_len |-> buf_len,
         used |-> used, lines |-> lines, ret |-> "Ok(true)", scan |-> <<>>]

\* The reader with the bytes that memchr(b'\n', &self.buf[pos..self.used])
\* examines added to `scan`; a byte is named by its distance from the end
\* of the live region, which split_off does not change.
Examined(self, pos) ==
    LET n == memchr_examined(NL, Slice(self.buf, pos, self.used))
    IN  [self EXCEPT !.scan = @ \o [k \in 1..n |-> self.used - (pos + k - 1)]]

\* Variant: no loop, at most one line is split off per call
eval_buf_once(self0, pos) ==
    LET inewline == memchr(NL, Slice(self0.buf, pos, self0.used))
        self == Examined(self0, pos)
    IN  IF inewline # -1
        THEN LET at == pos + inewline + 1
                 line == Slice(self.buf, 0, at)
                 s1 == [self EXCEPT !.buf = split_off(self.buf, at),
                                    !.buf_len = self.buf_len - at,
                                    !.used = self.used - at]
                 conv == u8array_to_string(line)
             IN  IF conv.ok
                 THEN [s1 EXCEPT !.lines = Append(@, conv.val)]
                 ELSE [s1 EXCEPT !.ret = "Err(InvalidData)"]
        ELSE self

\* fn eval_buf(&mut self, mut pos: usize) -> Result<(), io::Error>
RECURSIVE eval_buf(_, _)
eval_buf(self0, pos) ==
    LET inewline == memchr(NL, Slice(self0.buf, pos, self0.used))
        self == Examined(self0, pos)
    IN  IF inewline # -1
        THEN LET at == pos + inewline + 1
                 \* split_off(at) followed by mem::swap: line = buf[..at],
                 \* self.buf = buf[at..]
                 line == Slice(self.buf, 0, at)
                 s1 == [self EXCEPT !.buf = split_off(self.buf, at),
                                    !.buf_len = self.buf_len - at,
                                    !.used = self.used - at]
                 conv == u8array_to_string(line)
             IN  IF conv.ok
                 THEN eval_buf([s1 EXCEPT !.lines = Append(@, conv.val)], 0)
                 ELSE [s1 EXCEPT !.ret = "Err(InvalidData)"]
        ELSE self

\* self.buf.resize(self.used + BUFFER_SIZE, 0) when buf.len() is smaller
Resized(self) ==
    IF self.buf_len < self.used + BUFFER_SIZE
    THEN [self EXCEPT !.buf_len = self.used + BUFFER_SIZE]
    ELSE self

\* Results of self.reader.read(&mut buf[self.used..]) for a region of
\* `room` bytes: Ok(n) with the n bytes read, or Err(kind).
ReadOk(data) == [tag |-> "Ok", data |-> data, kind |-> "none"]
ReadErr(kind) == [tag |-> "Err", data |-> <<>>, kind |-> kind]

Chunks(n) == UNION {[1..k -> Bytes] : k \in 1..n}

ReadResults(room) ==
    LET left == MaxLen - Len(delivered)
        most == IF left < room THEN left ELSE room
    IN  (IF stream_eof THEN {} ELSE {ReadOk(c) : c \in Chunks(most)})
        \cup {ReadOk(<<>>)}
        \cup {ReadErr(k) : k \in IF stream_eof THEN ErrorKinds \ {"WouldBlock"}
                                  ELSE ErrorKinds}

\* Variant: the flushed rest gets a synthetic terminator
read_eof_terminated(self) ==
    IF self.used > 0
    THEN LET lastline == Slice(self.buf, 0, self.used) \o <<NL>>
             taken_buf == [self EXCEPT !.buf = <<>>, !.buf_len = 0]
             conv == u8array_to_string(lastline)
         IN  IF conv.ok
             THEN [taken_buf EXCEPT !.lines = Append(@, conv.val),
                                    !.used = 0,
                                    !.at_eof = TRUE]
             ELSE [taken_buf EXCEPT !.ret = "Err(InvalidData)"]
    ELSE [self EXCEPT !.at_eof = TRUE]

\* Variant: the rest is flushed even when it is empty
read_eof_always(self) ==
    LET lastline == Slice(self.buf, 0, self.used)
        taken_buf == [self EXCEPT !.buf = <<>>, !.buf_len = 0]
        conv == u8array_to_string(lastline)
    IN  IF conv.ok
        THEN [taken_buf EXCEPT !.lines = Append(@, conv.val),
                               !.used = 0,
                               !.at_eof = TRUE]
        ELSE [taken_buf EXCEPT !.ret = "Err(InvalidData)"]

\* Variant: flushing the rest does not mark end of file
read_eof_keep_open(self) ==
    IF self.used > 0
    THEN LET lastline == Slice(self.buf, 0, self.used)
             taken_buf == [self EXCEPT !.buf = <<>>, !.buf_len = 0]
             conv == u8array_to_string(lastline)
         IN  IF conv.ok
             THEN [taken_buf EXCEPT !.lines = Append(@, conv.val),
                                    !.used = 0]
             ELSE [taken_buf EXCEPT !.ret = "Err(InvalidData)"]
    ELSE [self EXCEPT !.at_eof = TRUE]

\* read_once, match arm Ok(0): flush the unterminated rest, mark end of file
read_eof(self) ==
    IF self.used > 0
    THEN LET \* mem::take(&mut self.buf) leaves an empty Vec behind
             lastline == Slice(self.buf, 0, self.used)
             taken_buf == [self EXCEPT !.buf = <<>>, !.buf_len = 0]
             conv == u8array_to_string(lastline)
         IN  IF conv.ok
             THEN [taken_buf EXCEPT !.lines = Append(@, conv.val),
                                    !.used = 0,
                                    !.at_eof = TRUE]
             ELSE [taken_buf EXCEPT !.ret = "Err(InvalidData)"]
    ELSE [self EXCEPT !.at_eof = TRUE]

\* Variant: no data is taken for the end of the stream
read_nodata_as_eof(self) == [self EXCEPT !.at_eof = TRUE]

\* read_once, match arms Err(WouldBlock) and Err(Interrupted): fall through
read_nodata(self) == self

\* Variant: the scan starts over at the front of the buffer
read_data_rescan(self, data) ==
    eval_buf([self EXCEPT !.buf = Slice(self.buf, 0, self.used) \o data,
                          !.used = self.used + Len(data)],
             0)

\* read_once, match arm Ok(len): the bytes are in buf[oldused..], look for
\* newlines from oldused forward
read_data(self, data) ==
    LET oldused == self.used
    IN  eval_buf([self EXCEPT !.buf = Slice(self.buf, 0, self.used) \o data,
                              !.used = self.used + Len(data)],
                 oldused)

\* Variant: the error is swallowed
read_err_swallow(self, kind) == self

\* read_once, match arm Err(err): return Err(err)
read_err(self, kind) == [self EXCEPT !.ret = "Err(" \o kind \o ")"]

\* read_once after the at_eof test and the resize: the match on the result
\* of the read
read_match(self, res) ==
    IF res.tag = "Ok" /\ Len(res.data) = 0 THEN read_eof(self)
    ELSE IF res.tag = "Err" /\ res.kind = "WouldBlock" THEN read_nodata(self)
    ELSE IF res.tag = "Err" /\ res.kind = "Interrupted" THEN read_nodata(self)
    ELSE IF res.tag = "Ok" THEN read_data(self, res.data)
    ELSE read_err(self, res.kind)

\* Variant: no at_eof test on entry
read_once_noguard(self, res) == read_match(Resized(self), res)

\* Variant: the result is !self.at_eof evaluated on return
read_once_late(self, res) ==
    IF self.at_eof THEN [self EXCEPT !.ret = "Ok(false)"]
    ELSE LET s == read_match(Resized(self), res)
         IN  IF s.at_eof THEN [s EXCEPT !.ret = "Ok(false)"] ELSE s

\* Variant: the booleans the other way round at end of file
read_once_inverted(self, res) ==
    IF self.at_eof THEN [self EXCEPT !.ret = "Ok(true)"]
    ELSE read_match(Resized(self), res)

\* fn read_once(&mut self) -> Result<bool, io::Error>, given the result of
\* the one read it performs.
read_once(self, res) ==
    IF self.at_eof THEN [self EXCEPT !.ret = "Ok(false)"]
    ELSE read_match(Resized(self), res)

\* fn eof(&self) -> bool
eof == at_eof

\* fn has_lines(&mut self) -> bool
has_lines(self) == self.lines # <<>>

----------------------------------------------------------------------------
TypeOK ==
    /\ delivered \in Seq(Bytes) /\ Len(delivered) <= MaxLen
    /\ stream_eof \in BOOLEAN /\ at_eof \in BOOLEAN
    /\ used \in Nat /\ buf_len \in Nat /\ Len(buf) <= buf_len
    /\ pc \in {"idle", "read_available", "nb_read_available"}

Init ==
    /\ delivered = <<>>
    /\ stream_eof = FALSE
    /\ at_eof = FALSE
    /\ buf = <<>>
    /\ buf_len = 0
    /\ used = 0
    /\ lines = <<>>
    /\ pc = "idle"
    /\ op = "new"
    /\ r = "none"
    /\ ret = "none"
    /\ taken = <<>>
    /\ failed = FALSE
    /\ scanned = <<>>
    /\ got = <<>>

\* What the read of this step is recorded as.
ReadTag(res) ==
    IF res.tag = "Err" THEN res.kind
    ELSE IF Len(res.data) = 0 THEN "eof" ELSE "data"

\* Variant: the loop does not look at has_lines
DefaultContinue_nolines(s) == s.ret = "Ok(true)"

\* LineRead::read_available (trait default):
\*   while self.read_once()? && !self.has_lines() {}
DefaultContinue(s) == s.ret = "Ok(true)" /\ ~has_lines(s)

\* LineReaderNonBlock::read_available:
\*   while self.read_once()? {}
NonBlockContinue(s) == s.ret = "Ok(true)"

\* Whether `caller` calls read_once again, given the reader after a call
Continue(caller, s) ==
    IF caller = "read_available" THEN DefaultContinue(s)
    ELSE IF caller = "nb_read_available" THEN NonBlockContinue(s)
    ELSE FALSE

\* `scanned` after a call that examined the bytes `scan` (distances from the
\* end of the n bytes delivered so far)
Scanned(scan, n) ==
    [i \in 1..n |->
        (IF i <= Len(scanned) THEN scanned[i] ELSE 0)
        + Cardinality({k \in 1..Len(scan) : scan[k] = n - i + 1})]

\* One read_once call made by `caller`
Call(caller, res) ==
    LET s == read_once(Self, res)
    IN  /\ at_eof' = s.at_eof
        /\ buf' = s.buf
        /\ buf_len' = s.buf_len
        /\ used' = s.used
        /\ lines' = s.lines
        /\ ret' = s.ret
        /\ op' = caller
        /\ r' = IF at_eof THEN "none" ELSE ReadTag(res)
        /\ delivered' = IF at_eof THEN delivered ELSE delivered \o res.data
        /\ stream_eof' = IF at_eof THEN stream_eof
                         ELSE (stream_eof \/ ReadTag(res) = "eof")
        /\ pc' = IF Continue(caller, s) THEN caller ELSE "idle"
        /\ failed' = (failed \/ s.ret = "Err(InvalidData)")
        /\ scanned' = Scanned(s.scan, Len(delivered'))
        /\ UNCHANGED <<taken, got>>

Room == (IF buf_len < used + BUFFER_SIZE THEN used + BUFFER_SIZE ELSE buf_len) - used

\* reader.read_once()
ReadOnce ==
    /\ pc = "idle"
    /\ \E res \in ReadResults(Room) : Call("read_once", res)

\* reader.read_available(), one iteration of its loop per step
ReadAvailable ==
    /\ pc \in {"idle", "read_available"}
    /\ \E res \in ReadResults(Room) : Call("read_available", res)

\* LineReaderNonBlock::read_available(), one iteration of its loop per step
NonBlockReadAvailable ==
    /\ pc \in {"idle", "nb_read_available"}
    /\ \E res \in ReadResults(Room) : Call("nb_read_available", res)

\* Variant: only the oldest pending line is handed out
LinesGet_first ==
    /\ pc = "idle"
    /\ taken' = IF lines = <<>> THEN <<>> ELSE <<Head(lines)>>
    /\ lines' = IF lines = <<>> THEN <<>> ELSE Tail(lines)
    /\ got' = got \o taken'
    /\ op' = "lines_get"
    /\ r' = "none"
    /\ UNCHANGED <<delivered, stream_eof, at_eof, buf, buf_len, used, pc, ret, failed, scanned>>

\* Variant: the byte buffer is cleared along with the lines
LinesGet_reset ==
    /\ pc = "idle"
    /\ taken' = lines
    /\ lines' = <<>>
    /\ got' = got \o lines
    /\ op' = "lines_get"
    /\ r' = "none"
    /\ buf' = <<>>
    /\ used' = 0
    /\ UNCHANGED <<delivered, stream_eof, at_eof, buf_len, pc, ret, failed, scanned>>

\* fn lines_get(&mut self) -> Vec<String> { mem::take(&mut self.lines) }
LinesGet ==
    /\ pc = "idle"
    /\ taken' = lines
    /\ lines' = <<>>
    /\ got' = got \o lines
    /\ op' = "lines_get"
    /\ r' = "none"
    /\ UNCHANGED <<delivered, stream_eof, at_eof, buf, buf_len, used, pc, ret, failed, scanned>>

Next ==
    \/ ReadOnce
    \/ ReadAvailable
    \/ NonBlockReadAvailable
    \/ LinesGet

Spec == Init /\ [][Next]_vars

----------------------------------------------------------------------------
\* Vocabulary of the properties

\* The live region buf[0..used]
Live == Slice(buf, 0, used)

\* Operations that call read_once
ReadOps == {"read_once", "read_available", "nb_read_available"}

\* Transport failures: every error kind read_once does not absorb
TransportErrors == ErrorKinds \ {"WouldBlock", "Interrupted"}

HasNL(s) == \E i \in 1..Len(s) : s[i] = NL

EndsNL(s) == Len(s) > 0 /\ s[Len(s)] = NL

CountNL(s) == Cardinality({i \in 1..Len(s) : s[i] = NL})

\* Position of the first separator of s after the first `from` bytes, 0 if none
FirstNL(s, from) ==
    IF \E i \in (from + 1)..Len(s) : s[i] = NL
    THEN CHOOSE i \in (from + 1)..Len(s) :
            s[i] = NL /\ \A j \in (from + 1)..(i - 1) : s[j] # NL
    ELSE 0

\* s cut after every separator; an unterminated rest is the last element
RECURSIVE SplitLines(_)
SplitLines(s) ==
    IF s = <<>> THEN <<>>
    ELSE LET i == FirstNL(s, 0)
         IN  IF i = 0 THEN <<s>>
             ELSE <<SubSeq(s, 1, i)>> \o SplitLines(SubSeq(s, i + 1, Len(s)))

RECURSIVE Concat(_)
Concat(ss) == IF ss = <<>> THEN <<>> ELSE Head(ss) \o Concat(Tail(ss))

\* The separator-terminated elements of SplitLines(s)
CompleteLines(s) ==
    LET all == SplitLines(s)
    IN  IF all # <<>> /\ ~EndsNL(all[Len(all)])
        THEN SubSeq(all, 1, Len(all) - 1) ELSE all

\* Emitted == every line the reader has produced so far, in order
Emitted == got \o lines

----------------------------------------------------------------------------
\* C1: for well-formed text, however the stream chunks it and whatever
\* would-block/interrupted results come in between, the lines drained by the
\* time eof() is true are the K separator-terminated lines (plus one for an
\* unterminated rest), in stream order, and their concatenation is the input.
C1_DrainYieldsInput ==
    (at_eof /\ from_utf8_ok(delivered)) =>
        /\ Emitted = SplitLines(delivered)
        /\ Len(Emitted) = CountNL(delivered)
                          + (IF delivered # <<>> /\ ~EndsNL(delivered) THEN 1 ELSE 0)
        /\ Concat(Emitted) = delivered

C1_Witness ==
    /\ at_eof /\ from_utf8_ok(delivered)
    /\ CountNL(delivered) >= 2 /\ ~EndsNL(delivered)
    /\ got # <<>> /\ lines # <<>>
    /\ \E i \in 1..Len(delivered) : delivered[i] = 195

\* C2: once eof() is true it stays true; a read_once or read_available made
\* then returns at once, performs no read and leaves buf, used and lines alone.
C2_EofAbsorbing ==
    [][at_eof =>
        /\ at_eof'
        /\ op' \in ReadOps =>
             /\ r' = "none" /\ ret' = "Ok(false)" /\ pc' = "idle"
             /\ UNCHANGED <<buf, buf_len, used, lines, delivered, stream_eof>>
        /\ op' = "lines_get" => UNCHANGED <<buf, buf_len, used>>]_vars

C2_Witness ==
    /\ at_eof /\ op = "read_available" /\ r = "none" /\ ret = "Ok(false)"
    /\ lines # <<>> /\ got # <<>>

C5_LinesGetDrains ==
    [][op' = "lines_get" =>
        /\ taken' = lines
        /\ lines' = <<>>
        /\ got' \o lines' = got \o lines
        /\ op = "lines_get" => taken' = <<>>]_vars

C5_Witness == op = "lines_get" /\ Len(taken) >= 2 /\ lines = <<>>

\* C6: lines_get performs no read and leaves at_eof, used and the live buffer
\* content as they were.
C6_LinesGetFrame ==
    [][op' = "lines_get" =>
        /\ r' = "none"
        /\ UNCHANGED <<at_eof, used, delivered, stream_eof>>
        /\ Live' = Live]_vars

C6_Witness == op = "lines_get" /\ taken # <<>> /\ used > 0 /\ ~at_eof

C8_TransportErrorFrame ==
    [][(op' \in ReadOps /\ r' \in TransportErrors) =>
        /\ ret' = "Err(" \o r' \o ")"
        /\ UNCHANGED <<at_eof, used, lines>>
        /\ Live' = Live]_vars

C8_Witness ==
    /\ op = "read_once" /\ r = "BrokenPipe" /\ ret = "Err(BrokenPipe)"
    /\ used > 0 /\ lines # <<>>

\* The bytes the read of this step delivered
NewBytes == SubSeq(delivered', Len(delivered) + 1, Len(delivered'))

\* The candidate lines of a read that appends `data` to the live bytes
\* `live`: the first one ends at the first separator among the new bytes,
\* the others are the complete lines of what follows.
Candidates(live, data) ==
    LET whole == live \o data
        i == FirstNL(whole, Len(live))
    IN  IF i = 0 THEN <<>>
        ELSE <<SubSeq(whole, 1, i)>> \o CompleteLines(SubSeq(whole, i + 1, Len(whole)))

\* Index of the first candidate that is not valid text, 0 if all are valid
FirstBad(cs) ==
    IF \E k \in 1..Len(cs) : ~from_utf8_ok(cs[k])
    THEN CHOOSE k \in 1..Len(cs) :
            ~from_utf8_ok(cs[k]) /\ \A j \in 1..(k - 1) : from_utf8_ok(cs[j])
    ELSE 0

\* C9: when a candidate line (separator-terminated, or the rest flushed at
\* end-of-stream) is not valid text, read_once returns an InvalidData error,
\* which no transport failure produces, and pushes only the candidates before
\* it: no pending line is ever built from invalid bytes.
C9_InvalidTextIsError ==
    [][(op' \in ReadOps /\ r' \in {"data", "eof"}) =>
        LET cs == IF r' = "data" THEN Candidates(Live, NewBytes)
                  ELSE IF used > 0 THEN <<Live>> ELSE <<>>
            k == FirstBad(cs)
        IN  /\ k # 0 => /\ ret' = "Err(InvalidData)"
                        /\ lines' = lines \o SubSeq(cs, 1, k - 1)
            /\ ret' = "Err(InvalidData)" => k # 0
            /\ ret' \notin {"Err(" \o t \o ")" : t \in TransportErrors}
            /\ \A i \in 1..Len(lines') : from_utf8_ok(lines'[i])]_vars

C9_Witness ==
    /\ op = "read_once" /\ r = "data" /\ ret = "Err(InvalidData)"
    /\ Len(lines) = 1 /\ got = <<>> /\ used > 0

C11_NoLineFromNothing ==
    [][(op' \in ReadOps /\ r' = "eof" /\ used = 0) =>
        /\ lines' = lines
        /\ at_eof' /\ used' = 0 /\ ret' = "Ok(true)"]_vars

C11_Witness ==
    /\ op = "read_once" /\ r = "eof" /\ at_eof /\ ~failed
    /\ EndsNL(delivered) /\ Len(Emitted) = CountNL(delivered) /\ lines # <<>>

\* C12: no call spins: a read_once or read_available (trait default and
\* LineReaderNonBlock) whose read reports would-block returns to the caller.
C12_ReturnsOnWouldBlock ==
    (op \in ReadOps /\ r = "WouldBlock") => pc = "idle"

\* C13: in every reachable state, after calls that returned errors too,
\* used <= buf.len().
C13_UsedWithinBuf == used <= buf_len

\* C16: whenever the read returns zero bytes to a read_once that started with
\* at_eof false, at_eof is true and used is 0 when the call returns.
C16_ZeroReadSetsEof ==
    (op \in ReadOps /\ r = "eof") => (at_eof /\ used = 0)

\* C14: only complete lines are exposed: every line pushed ends with the
\* separator, except at most one, which is the last line ever pushed and is
\* pushed by the call that sets at_eof; while eof() is false every line ends
\* with the separator.
C14_OnlyCompleteLines ==
    /\ [](/\ ~at_eof => \A i \in 1..Len(Emitted) : EndsNL(Emitted[i])
          /\ \A i \in 1..(Len(Emitted) - 1) : EndsNL(Emitted[i]))
    /\ [][(Len(Emitted') > Len(Emitted) /\ ~EndsNL(Emitted'[Len(Emitted')])) =>
            /\ ~at_eof /\ at_eof'
            /\ Len(Emitted') = Len(Emitted) + 1]_vars
    /\ [][at_eof => Emitted' = Emitted]_vars

C14_Witness ==
    /\ at_eof /\ Len(Emitted) >= 2 /\ ~EndsNL(Emitted[Len(Emitted)])
    /\ op = "read_available" /\ r = "eof"

RECURSIVE Rest(_)
Rest(s) ==
    LET i == FirstNL(s, 0)
    IN  IF i = 0 THEN s ELSE Rest(SubSeq(s, i + 1, Len(s)))

\* C18: a read_once whose read delivers N > 0 bytes holding m separators and
\* that returns Ok pushes exactly m lines in that call, in stream order, the
\* first one starting with what was buffered before, separator-only lines
\* included; the bytes after the last separator stay buffered.
C18_AllLinesOfOneRead ==
    [][(op' \in ReadOps /\ r' = "data" /\ ret' = "Ok(true)") =>
        LET pushed == SubSeq(lines', Len(lines) + 1, Len(lines'))
        IN  /\ Len(lines') = Len(lines) + CountNL(NewBytes)
            /\ SubSeq(lines', 1, Len(lines)) = lines
            /\ pushed = Candidates(Live, NewBytes)
            /\ Concat(pushed) \o Live' = Live \o NewBytes
            /\ Live' = IF HasNL(NewBytes) THEN Rest(NewBytes)
                       ELSE Live \o NewBytes]_vars

C18_Witness ==
    /\ op = "read_once" /\ r = "data" /\ ret = "Ok(true)" /\ ~failed
    /\ got = <<>> /\ Len(lines) = 2 /\ lines[2] = <<NL>>
    /\ used > 0

\* C19: in every reachable state, also after an invalid-text error, no
\* pending line holds a separator anywhere but as its last byte.
C19_SeparatorOnlyLast ==
    \A i \in 1..Len(lines) :
        \A j \in 1..(Len(lines[i]) - 1) : lines[i][j] # NL

\* C20: whenever read_once is not executing (it has returned Ok or Err), the
\* live region buf[0..used] holds no separator.
C20_NoSeparatorBuffered == ~HasNL(Live)

\* C17: over the life of a reader each delivered byte is examined by the
\* separator scan at most once: a read_once scans only the bytes its own
\* read delivered, and after a separator only bytes not examined before.
C17_ScanOnce ==
    /\ [](\A i \in 1..Len(scanned) : scanned[i] <= 1)
    /\ [][\A i \in 1..Len(scanned) : scanned'[i] = scanned[i]]_vars
    /\ [][(op' \in ReadOps /\ r' = "data" /\ ret' = "Ok(true)") =>
            \A i \in (Len(delivered) + 1)..Len(delivered') : scanned'[i] = 1]_vars

C17_Witness ==
    /\ Len(delivered) >= 4 /\ \A i \in 1..Len(scanned) : scanned[i] = 1
    /\ Len(got) = 1 /\ Len(lines) = 1 /\ used > 0 /\ ~failed

\* line is a contiguous run of the bytes of s
IsRunOf(line, s) ==
    \E from \in 0..(Len(s) - Len(line)) :
        \A k \in 1..Len(line) : line[k] = s[from + k]

\* C21: every line ever pushed is a contiguous run of bytes the stream
\* delivered; after any sequence of calls, also a read_once that returned an
\* invalid-text error at end-of-stream followed by more read_once calls, no
\* line holds bytes the stream never delivered (such as buffer padding).
C21_LinesAreStreamBytes ==
    \A i \in 1..Len(Emitted) : IsRunOf(Emitted[i], delivered)

====
